---- MODULE Spec2Model ----
(***************************************************************************)
(* A model of doc-parser: the XMLWrapper cursor over a parsed minidom tree *)
(* (xml_wrapper.py), the per-document lazy cache GenericParser.xml_file    *)
(* (doc_parser.py) and the chained extraction rules of the SOP parser      *)
(* (example_script.py).                                                    *)
(*                                                                         *)
(* A parsed document is a sequence of nodes in document order: node 1 is   *)
(* the minidom Document, every other node names its parent, and a node's   *)
(* children are the nodes naming it, in increasing order.  Python's None   *)
(* as a node is NoNode.                                                    *)
(***************************************************************************)
EXTENDS Integers, Sequences, FiniteSets, TLC

VARIABLES archive, xml_files, node, reads, parses, last, docs, data, gen

vars == <<archive, xml_files, node, reads, parses, last, docs, data, gen>>

\* The ParserCollection, its OutputData and the generator of its records
collection == <<docs, data, gen>>

\* ------------------------------------------------------------------ bounds
MaxNodes == 4      \* nodes of a generated document, the Document node included
MaxReads == 2      \* archive reads of one part
MaxIndex == 1      \* |nth| of set_childNode ranges over -MaxIndex-1 .. MaxIndex
MaxDocs == 2       \* documents of a ParserCollection

\* --------------------------------------------------------------- constants
NoNode == 0
Root == 1
text_node_tag == "w:t"

HeaderPart == "word/header1.xml"
DocumentPart == "word/document.xml"
UnknownPart == "word/footer9.xml"
PartNames == {HeaderPart, DocumentPart, UnknownPart}

IssuedByPattern == "^Issued By:?\\w*$"
AlicePattern == "Alice"
NoMatchPattern == "^Bob$"
Patterns == {IssuedByPattern, AlicePattern, NoMatchPattern}

\* The heading and entry patterns of SOP.references and SOP.responsibilities
ReferencesPattern == "^References?:?\\w*$"
ResponsibilitiesPattern == "^Responsibilit(y|ies):?\\w*$"
ReferenceEntry == "^\\t?(?P<num>[-.A-Z0-9]+)\\t(?P<desc>[^\\t]+)$"
ResponsibilityEntry == "^\\t?(?P<party>[A-Za-z0-9, ]+)\\t(?P<resp>[^\\t]+)$"

TagNames == {"w:t", "w:tc"}
TextValues == {"Issued By:", "Alice"}

\* r.search(value): the values of the model that each pattern finds
re_search(pattern, value) ==
    \/ pattern = IssuedByPattern /\ value = "Issued By:"
    \/ pattern = AlicePattern /\ value = "Alice"
    \/ pattern = ReferencesPattern /\ value = "References"
    \/ pattern = ResponsibilitiesPattern /\ value = "Responsibilities"

\* The texts of the model that each entry pattern matches, with its two groups
EntryTable ==
    { [entry |-> ReferenceEntry, value |-> "SOP-1\tScope",
       first |-> "SOP-1", second |-> "Scope"],
      [entry |-> ReferenceEntry, value |-> "SOP-2\tSafety",
       first |-> "SOP-2", second |-> "Safety"],
      [entry |-> ReferenceEntry, value |-> "QA\tReview",
       first |-> "QA", second |-> "Review"],
      [entry |-> ResponsibilityEntry, value |-> "Owner\tApprove",
       first |-> "Owner", second |-> "Approve"],
      [entry |-> ResponsibilityEntry, value |-> "QA\tReview",
       first |-> "QA", second |-> "Review"] }

\* r.match(value): the match object as [ok, first, second], ok = FALSE for None
re_match(entry, value) ==
    LET hits == {e \in EntryTable : e.entry = entry /\ e.value = value}
    IN  IF hits = {} THEN [ok |-> FALSE, first |-> "", second |-> ""]
        ELSE LET e == CHOOSE e \in hits : TRUE
             IN  [ok |-> TRUE, first |-> e.first, second |-> e.second]

\* The dict appended for a match of the entry pattern
entry_record(entry, m) ==
    IF entry = ReferenceEntry
    THEN [doc_number |-> m.first, description |-> m.second]
    ELSE [party |-> m.first, responsibilities |-> m.second]

\* ------------------------------------------------------------ the DOM tree
DocumentNode == [kind |-> "Document", tag |-> "", value |-> "", parent |-> NoNode]
ElementNode(tag, parent) == [kind |-> "Element", tag |-> tag, value |-> "", parent |-> parent]
TextNode(value, parent) == [kind |-> "Text", tag |-> "", value |-> value, parent |-> parent]

Ids(t) == [i \in 1..Len(t) |-> i]

parentNode(t, n) == t[n].parent

childNodes(t, n) == SelectSeq(Ids(t), LAMBDA m : t[m].parent = n)

firstChild(t, n) ==
    LET c == childNodes(t, n) IN IF c = <<>> THEN NoNode ELSE c[1]

lastChild(t, n) ==
    LET c == childNodes(t, n) IN IF c = <<>> THEN NoNode ELSE c[Len(c)]

nextSibling(t, n) ==
    LET later == SelectSeq(Ids(t), LAMBDA m : t[m].parent = t[n].parent /\ m > n)
    IN IF t[n].parent = NoNode \/ later = <<>> THEN NoNode ELSE later[1]

previousSibling(t, n) ==
    LET earlier == SelectSeq(Ids(t), LAMBDA m : t[m].parent = t[n].parent /\ m < n)
    IN IF t[n].parent = NoNode \/ earlier = <<>> THEN NoNode ELSE earlier[Len(earlier)]

RECURSIVE IsAncestor(_, _, _)
\* a is a strict ancestor of m
IsAncestor(t, a, m) ==
    IF t[m].parent = NoNode THEN FALSE
    ELSE t[m].parent = a \/ IsAncestor(t, a, t[m].parent)

\* the Element descendants of n named name, in document order
getElementsByTagName(t, n, name) ==
    SelectSeq(Ids(t), LAMBDA m : /\ t[m].kind = "Element"
                                 /\ t[m].tag = name
                                 /\ IsAncestor(t, n, m))

\* ------------------------------------------------- the documents of a part
\* Bytes that minidom.parseString rejects
Malformed == [ok |-> FALSE, tree |-> <<>>]
Parsed(t) == [ok |-> TRUE, tree |-> t]

\* The nodes that can follow the last node of t in document order: a child of
\* an Element on the path from the last node up to the document element.
\* The parser merges adjacent character data, so no Text follows a Text sibling.
NextNodes(t) ==
    LET n == Len(t)
        open == {q \in 2..n : t[q].kind = "Element" /\ (q = n \/ IsAncestor(t, q, n))}
    IN  {ElementNode(g, q) : g \in TagNames, q \in open}
        \cup {TextNode(v, q) : v \in TextValues,
                               q \in {o \in open : lastChild(t, o) = NoNode
                                                   \/ t[lastChild(t, o)].kind # "Text"}}

RECURSIVE TreesOfSize(_)
TreesOfSize(k) ==
    IF k = 2 THEN {<<DocumentNode, ElementNode(g, Root)>> : g \in TagNames}
    ELSE UNION {{Append(t, r) : r \in NextNodes(t)} : t \in TreesOfSize(k - 1)}

GeneratedTrees == UNION {TreesOfSize(k) : k \in 2..MaxNodes}

\* ------------------------------------------ XMLWrapper: the cursor methods
\* Each method, as a function of the wrapper's tree t and its self.node n:
\* the node it leaves in self.node and what it returns ("Self", or "None").
Moved(m) == [node |-> m, ret |-> "Self"]
Failed(n) == [node |-> n, ret |-> "None"]

\* reset_to_root that leaves the cursor where it is
reset_to_root_stay(t, n) == Moved(n)

\* self.node = self.minidom; return self
reset_to_root_on(t, n) == Moved(Root)

\* try: self.node = self.node.firstChild; return self -- except: return None.
\* The attribute read raises only when self.node is None.
set_firstChild_on(t, n) ==
    IF n = NoNode THEN Failed(n) ELSE Moved(firstChild(t, n))

set_lastChild_on(t, n) ==
    IF n = NoNode THEN Failed(n) ELSE Moved(lastChild(t, n))

\* self.node.childNodes[nth]: a Python list index, negative counts from the end
set_childNode_on(t, n, nth) ==
    IF n = NoNode THEN Failed(n)
    ELSE LET c == childNodes(t, n)
         IN  IF nth >= 0 /\ nth < Len(c) THEN Moved(c[nth + 1])
             ELSE IF nth < 0 /\ -nth <= Len(c) THEN Moved(c[Len(c) + nth + 1])
             ELSE Failed(n)

\* set_parentNode that climbs two levels where the tree has them
set_parentNode_twice(t, n) ==
    IF n = NoNode THEN Failed(n)
    ELSE LET p == parentNode(t, n)
         IN  IF p # NoNode /\ parentNode(t, p) # NoNode
             THEN Moved(parentNode(t, p)) ELSE Moved(p)

set_parentNode_on(t, n) ==
    IF n = NoNode THEN Failed(n) ELSE Moved(parentNode(t, n))

set_nextSibling_on(t, n) ==
    IF n = NoNode THEN Failed(n) ELSE Moved(nextSibling(t, n))

set_previousSibling_on(t, n) ==
    IF n = NoNode THEN Failed(n) ELSE Moved(previousSibling(t, n))

RECURSIVE scan_text_nodes_moving(_, _, _, _)
\* The scan that keeps the cursor on each element it visits
scan_text_nodes_moving(t, els, pattern, n) ==
    IF els = <<>> THEN Failed(n)
    ELSE LET e == Head(els)
             fc == firstChild(t, e)
         IN  IF fc = NoNode THEN Failed(e)
             ELSE IF t[fc].kind = "Text" /\ re_search(pattern, t[fc].value)
                  THEN Moved(e)
                  ELSE scan_text_nodes_moving(t, Tail(els), pattern, e)

RECURSIVE scan_text_nodes(_, _, _, _)
\* The for loop of set_text_node_by_pattern over the elements els still to
\* visit: n.firstChild.nodeType raises on an element without children, which
\* ends the scan in the except branch; falling off the loop returns None.
scan_text_nodes(t, els, pattern, n) ==
    IF els = <<>> THEN Failed(n)
    ELSE LET e == Head(els)
             fc == firstChild(t, e)
         IN  IF fc = NoNode THEN Failed(n)
             ELSE IF t[fc].kind = "Text" /\ re_search(pattern, t[fc].value)
                  THEN Moved(e)
                  ELSE scan_text_nodes(t, Tail(els), pattern, n)

\* None and Text nodes have no getElementsByTagName
set_text_node_by_pattern_on(t, n, pattern) ==
    IF n = NoNode THEN Failed(n)
    ELSE IF t[n].kind = "Text" THEN Failed(n)
    ELSE scan_text_nodes(t, getElementsByTagName(t, n, text_node_tag), pattern, n)

RECURSIVE climb_to_tag(_, _, _, _)
\* The while loop of set_ancestor_node_by_tag at n = m: the Document has no
\* tagName, so reaching it raises and the except branch returns None.
climb_to_tag(t, m, tag_name, n) ==
    IF parentNode(t, m) = NoNode THEN Failed(n)
    ELSE LET q == parentNode(t, m)
         IN  IF t[q].kind # "Element" THEN Failed(n)
             ELSE IF t[q].tag = tag_name THEN Moved(q)
             ELSE climb_to_tag(t, q, tag_name, n)

\* The search that tests the starting node before it climbs
set_ancestor_node_by_tag_inclusive(t, n, tag_name) ==
    IF n = NoNode THEN Failed(n)
    ELSE IF t[n].kind = "Element" /\ t[n].tag = tag_name THEN Moved(n)
    ELSE climb_to_tag(t, n, tag_name, n)

set_ancestor_node_by_tag_on(t, n, tag_name) ==
    IF n = NoNode THEN Failed(n) ELSE climb_to_tag(t, n, tag_name, n)

\* get_text_value returns a str, or None
Str(s) == [ok |-> TRUE, text |-> s]
NoStr == [ok |-> FALSE, text |-> ""]

\* XMLWrapper.__init__ sets minidom, text_node_tag and node; nothing in the
\* class assigns special_tags, so reading self.special_tags raises.
special_tags_defined == FALSE

RECURSIVE get_text_value_on(_, _)
RECURSIVE walk_children(_, _, _)
\* The for loop of get_text_value over the children kids still to visit,
\* found_text = acc.  An Element child reads self.special_tags; were the
\* attribute an (empty) table, the child would be descended into, and a None
\* from the recursion cannot be added to a str.
walk_children(t, kids, acc) ==
    IF kids = <<>> THEN Str(acc)
    ELSE LET k == Head(kids)
         IN  IF t[k].kind = "Text" THEN walk_children(t, Tail(kids), acc \o t[k].value)
             ELSE IF ~special_tags_defined THEN NoStr
             ELSE LET r == get_text_value_on(t, k)
                  IN  IF ~r.ok THEN NoStr
                      ELSE walk_children(t, Tail(kids), acc \o r.text)

\* get_text_value that reports an empty result as a failure
get_text_value_or_None(t, start) ==
    IF start = NoNode THEN NoStr
    ELSE LET r == walk_children(t, childNodes(t, start), "")
         IN  IF r.text = "" THEN NoStr ELSE r

\* start_node defaults to self.node; None has no childNodes
get_text_value_on(t, start) ==
    IF start = NoNode THEN NoStr ELSE walk_children(t, childNodes(t, start), "")

\* ------------------------------------------------------------- the state
\* archive     the parts of the zip file (immutable): name -> content
\* xml_files   GenericParser._xml_files: name -> "None" | "XMLWrapper"
\* node        self.node of the XMLWrapper cached for each part
\* reads       z.read calls made for each name
\* parses      minidom.parseString calls made for each name
\* last        the last call made by a caller and what it returned
Call(op, part, arg, nth, ret, before, text) ==
    [op |-> op, part |-> part, arg |-> arg, nth |-> nth,
     ret |-> ret, before |-> before, text |-> text, steps |-> 0, list |-> <<>>]

NoCall == Call("none", "", "", 0, "None", NoNode, "")

\* No OutputData built and no records generator started
NoOutputData == [built |-> FALSE, has_props |-> FALSE, props |-> <<>>,
                 extended_attr |-> "", given |-> <<>>]
NoGenerator == [state |-> "none", key |-> 0, yielded |-> <<>>]

\* A parser that stands alone, in no collection
NoCollection == docs = <<>> /\ data = NoOutputData /\ gen = NoGenerator

\* GenericParser.__init__: every part of the archive is keyed, unparsed
Constructed ==
    /\ xml_files = [p \in DOMAIN archive |-> "None"]
    /\ node = [p \in DOMAIN archive |-> NoNode]
    /\ reads = [p \in PartNames |-> 0]
    /\ parses = [p \in PartNames |-> 0]
    /\ last = NoCall

Tree(p) == archive[p].tree

\* A caller can call a method on the wrapper of p once xml_file returned it
Held(p) == p \in DOMAIN xml_files /\ xml_files[p] = "XMLWrapper"

\* A cursor method of the wrapper of p ran with outcome r
Ran(op, p, arg, nth, r) ==
    /\ node' = [node EXCEPT ![p] = r.node]
    /\ last' = Call(op, p, arg, nth, r.ret, node[p], "")
    /\ UNCHANGED <<archive, xml_files, reads, parses, collection>>

\* ------------------------------------------------------------ the actions
\* What GenericParser.xml_file does for one name: what it returns, whether it
\* read and parsed the part, self.node as it found it, and the cache entry and
\* self.node it leaves.
\* except: return None, the cache as it was
Unavailable(read) ==
    [ret |-> "None", read |-> read, before |-> NoNode,
     xml_files |-> xml_files, node |-> node]

\* ParseFetch that stores the entry before the bytes are parsed
ParseFetchStoresFirst(xml_filename, readable) ==
    IF ~readable THEN Unavailable(FALSE)
    ELSE [ret |-> IF archive[xml_filename].ok THEN "Self" ELSE "None",
          read |-> TRUE, before |-> NoNode,
          xml_files |-> [xml_files EXCEPT ![xml_filename] = "XMLWrapper"],
          node |-> [node EXCEPT ![xml_filename] =
                       IF archive[xml_filename].ok THEN Root ELSE NoNode]]

\* The entry is None: open the archive (readable tells whether
\* zipfile.ZipFile succeeds now), read the part, parse it, store the wrapper.
\* minidom.parseString raises on malformed bytes, before anything is stored;
\* XMLWrapper.__init__ ends with reset_to_root().
ParseFetch(xml_filename, readable) ==
    IF ~readable THEN Unavailable(FALSE)
    ELSE IF ~archive[xml_filename].ok THEN Unavailable(TRUE)
    ELSE [ret |-> "Self", read |-> TRUE, before |-> NoNode,
          xml_files |-> [xml_files EXCEPT ![xml_filename] = "XMLWrapper"],
          node |-> [node EXCEPT ![xml_filename] = Root]]

\* CachedFetch over one cursor that all the cached parts share
CachedFetchOneCursor(xml_filename) ==
    [ret |-> reset_to_root_on(archive[xml_filename].tree, node[xml_filename]).ret,
     read |-> FALSE, before |-> node[xml_filename],
     xml_files |-> xml_files,
     node |-> [q \in DOMAIN node |->
                  IF xml_files[q] = "XMLWrapper"
                  THEN reset_to_root_on(archive[q].tree, node[q]).node
                  ELSE node[q]]]

\* The entry is a wrapper: return self._xml_files[xml_filename].reset_to_root()
CachedFetch(xml_filename) ==
    [ret |-> reset_to_root_on(archive[xml_filename].tree, node[xml_filename]).ret,
     read |-> FALSE, before |-> node[xml_filename],
     xml_files |-> xml_files,
     node |-> [node EXCEPT ![xml_filename] =
                  reset_to_root_on(archive[xml_filename].tree, @).node]]

\* Fetch that parses the part again on every request
FetchNoCache(xml_filename, readable) ==
    IF xml_filename \notin DOMAIN xml_files THEN Unavailable(FALSE)
    ELSE ParseFetch(xml_filename, readable)

\* Fetch that opens the archive and reads before it finds the name is unknown
FetchUnknownRead(xml_filename, readable) ==
    IF xml_filename \notin DOMAIN xml_files THEN Unavailable(readable)
    ELSE IF xml_files[xml_filename] = "None" THEN ParseFetch(xml_filename, readable)
    ELSE CachedFetch(xml_filename)

\* self._xml_files[xml_filename] raises KeyError for a name that is no key
Fetch(xml_filename, readable) ==
    IF xml_filename \notin DOMAIN xml_files THEN Unavailable(FALSE)
    ELSE IF xml_files[xml_filename] = "None" THEN ParseFetch(xml_filename, readable)
    ELSE CachedFetch(xml_filename)

\* The archive is opened only for an entry that is None: whether it opens then
Readable(xml_filename) ==
    IF xml_filename \in DOMAIN xml_files /\ xml_files[xml_filename] = "None"
    THEN BOOLEAN ELSE {TRUE}

\* The cache and the counters after the fetch f of xml_filename
Fetched(xml_filename, f) ==
    /\ f.read => reads[xml_filename] < MaxReads
    /\ xml_files' = f.xml_files
    /\ reads' = IF f.read THEN [reads EXCEPT ![xml_filename] = @ + 1] ELSE reads
    /\ parses' = IF f.read THEN [parses EXCEPT ![xml_filename] = @ + 1] ELSE parses
    /\ UNCHANGED <<archive, collection>>

\* GenericParser.xml_file
xml_file(xml_filename) ==
    \E readable \in Readable(xml_filename) :
        LET f == Fetch(xml_filename, readable)
        IN  /\ Fetched(xml_filename, f)
            /\ node' = f.node
            /\ last' = Call("xml_file", xml_filename, "", 0, f.ret, f.before, "")

reset_to_root(p) ==
    /\ Held(p)
    /\ Ran("reset_to_root", p, "", 0, reset_to_root_on(Tree(p), node[p]))

set_firstChild(p) ==
    /\ Held(p)
    /\ Ran("set_firstChild", p, "", 0, set_firstChild_on(Tree(p), node[p]))

set_lastChild(p) ==
    /\ Held(p)
    /\ Ran("set_lastChild", p, "", 0, set_lastChild_on(Tree(p), node[p]))

set_childNode(p, nth) ==
    /\ Held(p)
    /\ Ran("set_childNode", p, "", nth, set_childNode_on(Tree(p), node[p], nth))

set_parentNode(p) ==
    /\ Held(p)
    /\ Ran("set_parentNode", p, "", 0, set_parentNode_on(Tree(p), node[p]))

set_nextSibling(p) ==
    /\ Held(p)
    /\ Ran("set_nextSibling", p, "", 0, set_nextSibling_on(Tree(p), node[p]))

set_previousSibling(p) ==
    /\ Held(p)
    /\ Ran("set_previousSibling", p, "", 0, set_previousSibling_on(Tree(p), node[p]))

set_text_node_by_pattern(p, pattern) ==
    /\ Held(p)
    /\ Ran("set_text_node_by_pattern", p, pattern, 0,
           set_text_node_by_pattern_on(Tree(p), node[p], pattern))

set_ancestor_node_by_tag(p, tag_name) ==
    /\ Held(p)
    /\ Ran("set_ancestor_node_by_tag", p, tag_name, 0,
           set_ancestor_node_by_tag_on(Tree(p), node[p], tag_name))

get_text_value(p) ==
    /\ Held(p)
    /\ LET r == get_text_value_on(Tree(p), node[p])
       IN  last' = Call("get_text_value", p, "", 0,
                        IF r.ok THEN "Str" ELSE "None", node[p], r.text)
    /\ UNCHANGED <<archive, xml_files, node, reads, parses, collection>>

\* A method called on the None that the previous call returned, inside the
\* caller's try block: AttributeError, and the except branch returns None.
call_on_None ==
    /\ last.op # "none"
    /\ last.ret = "None"
    /\ last' = Call("AttributeError", last.part, "", 0, "None", NoNode, "")
    /\ UNCHANGED <<archive, xml_files, node, reads, parses, collection>>

\* A chain whose next call runs on the cursor even after a call returned None
ThenResume(c, r) ==
    [node |-> r.node, ret |-> r.ret,
     steps |-> IF r.ret = "None" THEN c.steps ELSE c.steps + 1]

\* One more call of a chain that stands at c = [node, ret, steps]: a call on
\* None raises and leaves the chain where it failed.
Then(c, r) ==
    IF c.ret = "None" THEN c
    ELSE [node |-> r.node, ret |-> r.ret,
          steps |-> IF r.ret = "None" THEN c.steps ELSE c.steps + 1]

\* The chain of SOP.issued_by on the wrapper of tree t, after a fetch that
\* returned ret
issued_by_chain(t, ret) ==
    LET c0 == IF ret = "None" THEN [node |-> NoNode, ret |-> ret, steps |-> 0]
              ELSE [node |-> Root, ret |-> ret, steps |-> 1]
        c1 == Then(c0, set_text_node_by_pattern_on(t, c0.node, IssuedByPattern))
        c2 == Then(c1, set_ancestor_node_by_tag_on(t, c1.node, "w:tc"))
        c3 == Then(c2, set_nextSibling_on(t, c2.node))
    IN  c3

\* SOP.issued_by
issued_by ==
    \E readable \in Readable(HeaderPart) :
        LET f == Fetch(HeaderPart, readable)
            t == IF f.ret = "None" THEN <<>> ELSE archive[HeaderPart].tree
            c == issued_by_chain(t, f.ret)
            v == IF c.ret = "None" THEN NoStr ELSE get_text_value_on(t, c.node)
        IN  /\ Fetched(HeaderPart, f)
            /\ node' = IF f.ret = "None" THEN f.node
                       ELSE [f.node EXCEPT ![HeaderPart] = c.node]
            /\ last' = [op |-> "issued_by", part |-> HeaderPart, arg |-> "", nth |-> 0,
                        ret |-> IF v.ok THEN "Str" ELSE "None",
                        before |-> f.before, text |-> v.text,
                        steps |-> IF v.ok THEN c.steps + 1 ELSE c.steps,
                        list |-> <<>>]

RECURSIVE sibling_walk(_, _, _, _)
\* The while loop of SOP.references and SOP.responsibilities with the cursor
\* at n and the list refs so far.  set_nextSibling returning None ends the
\* loop; get_text_value returning None makes r.match raise TypeError, and the
\* except branch returns the list; a text without a match breaks.
sibling_walk(t, n, entry, refs) ==
    LET s == set_nextSibling_on(t, n)
        v == get_text_value_on(t, s.node)
        m == re_match(entry, v.text)
    IN  IF s.ret = "None" THEN [node |-> s.node, list |-> refs, steps |-> 0]
        ELSE IF ~v.ok \/ ~m.ok THEN [node |-> s.node, list |-> refs, steps |-> 1]
        ELSE LET w == sibling_walk(t, s.node, entry,
                                   Append(refs, entry_record(entry, m)))
             IN  [w EXCEPT !.steps = @ + 1]

\* The chain before the loop, on the wrapper of tree t after a fetch that
\* returned ret
heading_chain(t, ret, heading) ==
    LET c0 == IF ret = "None" THEN [node |-> NoNode, ret |-> ret, steps |-> 0]
              ELSE [node |-> Root, ret |-> ret, steps |-> 1]
        c1 == Then(c0, set_text_node_by_pattern_on(t, c0.node, heading))
        c2 == Then(c1, set_ancestor_node_by_tag_on(t, c1.node, "w:p"))
    IN  c2

\* The body shared by SOP.references and SOP.responsibilities; steps counts
\* the set_nextSibling calls of the loop.  A None in the chain raises
\* AttributeError and the except branch returns the empty list.
list_property(op, heading, entry) ==
    \E readable \in Readable(DocumentPart) :
        LET f == Fetch(DocumentPart, readable)
            t == IF f.ret = "None" THEN <<>> ELSE archive[DocumentPart].tree
            c == heading_chain(t, f.ret, heading)
            w == IF c.ret = "None" THEN [node |-> c.node, list |-> <<>>, steps |-> 0]
                 ELSE sibling_walk(t, c.node, entry, <<>>)
        IN  /\ Fetched(DocumentPart, f)
            /\ node' = IF f.ret = "None" THEN f.node
                       ELSE [f.node EXCEPT ![DocumentPart] = w.node]
            /\ last' = [op |-> op, part |-> DocumentPart, arg |-> heading, nth |-> 0,
                        ret |-> "List", before |-> f.before, text |-> "",
                        steps |-> w.steps, list |-> w.list]

\* SOP.references
references == list_property("references", ReferencesPattern, ReferenceEntry)

\* SOP.responsibilities
responsibilities ==
    list_property("responsibilities", ResponsibilitiesPattern, ResponsibilityEntry)

\* -------------------------------------------------------- the documents
\* <w:tr><w:tc><w:t>Issued By:</w:t></w:tc><w:tc><w:t>Alice</w:t></w:tc></w:tr>
SopRow ==
    << DocumentNode, ElementNode("w:tr", 1),
       ElementNode("w:tc", 2), ElementNode("w:t", 3), TextNode("Issued By:", 4),
       ElementNode("w:tc", 2), ElementNode("w:t", 6), TextNode("Alice", 7) >>

\* <w:tr><w:tc>Issued By:</w:tc><w:tc>Alice</w:tc></w:tr>
PlainRow ==
    << DocumentNode, ElementNode("w:tr", 1),
       ElementNode("w:tc", 2), TextNode("Issued By:", 3),
       ElementNode("w:tc", 2), TextNode("Alice", 5) >>

\* <w:tr><w:tc><w:t>Issued By:</w:t></w:tc><w:tc>Alice</w:tc></w:tr>
MixedRow ==
    << DocumentNode, ElementNode("w:tr", 1),
       ElementNode("w:tc", 2), ElementNode("w:t", 3), TextNode("Issued By:", 4),
       ElementNode("w:tc", 2), TextNode("Alice", 6) >>

\* <w:t><w:t>Issued By:</w:t><w:tc/></w:t>: a label outside any cell
LooseLabel ==
    << DocumentNode, ElementNode("w:t", 1),
       ElementNode("w:t", 2), TextNode("Issued By:", 3), ElementNode("w:tc", 2) >>

\* <w:tc><w:tc><w:t><w:tc/></w:t></w:tc></w:tc>: cells within cells
NestedCells ==
    << DocumentNode, ElementNode("w:tc", 1), ElementNode("w:tc", 2),
       ElementNode("w:t", 3), ElementNode("w:tc", 4) >>

\* <w:p><w:t/><w:t>Alice</w:t>Alice<w:t>Issued By:</w:t></w:p>
EmptyFirst ==
    << DocumentNode, ElementNode("w:p", 1), ElementNode("w:t", 2),
       ElementNode("w:t", 2), TextNode("Alice", 4), TextNode("Alice", 2),
       ElementNode("w:t", 2), TextNode("Issued By:", 7) >>

\* <w:p><w:t>Alice</w:t></w:p>
NoLabel ==
    << DocumentNode, ElementNode("w:p", 1), ElementNode("w:t", 2), TextNode("Alice", 3) >>

RowShapes == {SopRow, PlainRow}

Documents == {SopRow, PlainRow, MixedRow, LooseLabel, NestedCells, EmptyFirst, NoLabel}

HeaderContents == {Parsed(t) : t \in Documents} \cup {Malformed}
DocumentContents == {Parsed(NoLabel), Malformed}

\* <w:body><w:p><w:t>References</w:t></w:p><w:p>SOP-1\tScope</w:p>
\* <w:p>Purpose</w:p><w:p>SOP-2\tSafety</w:p></w:body>
PlainReferences ==
    << DocumentNode, ElementNode("w:body", 1),
       ElementNode("w:p", 2), ElementNode("w:t", 3), TextNode("References", 4),
       ElementNode("w:p", 2), TextNode("SOP-1\tScope", 6),
       ElementNode("w:p", 2), TextNode("Purpose", 8),
       ElementNode("w:p", 2), TextNode("SOP-2\tSafety", 10) >>

\* <w:body><w:p><w:t>References</w:t></w:p><w:p><w:t>SOP-1\tScope</w:t></w:p></w:body>
RunReferences ==
    << DocumentNode, ElementNode("w:body", 1),
       ElementNode("w:p", 2), ElementNode("w:t", 3), TextNode("References", 4),
       ElementNode("w:p", 2), ElementNode("w:t", 6), TextNode("SOP-1\tScope", 7) >>

\* <w:body><w:p>Purpose</w:p><w:p><w:t>Responsibilities</w:t></w:p>
\* <w:p>Owner\tApprove</w:p><w:p>QA\tReview</w:p></w:body>
PlainResponsibilities ==
    << DocumentNode, ElementNode("w:body", 1),
       ElementNode("w:p", 2), TextNode("Purpose", 3),
       ElementNode("w:p", 2), ElementNode("w:t", 5), TextNode("Responsibilities", 6),
       ElementNode("w:p", 2), TextNode("Owner\tApprove", 8),
       ElementNode("w:p", 2), TextNode("QA\tReview", 10) >>

\* <w:body><w:t>References</w:t><w:p>QA\tReview</w:p></w:body>
BareHeading ==
    << DocumentNode, ElementNode("w:body", 1),
       ElementNode("w:t", 2), TextNode("References", 3),
       ElementNode("w:p", 2), TextNode("QA\tReview", 5) >>

ListDocuments == {PlainReferences, RunReferences, PlainResponsibilities,
                  BareHeading, NoLabel}

ListContents == {Parsed(t) : t \in ListDocuments} \cup {Malformed}

AncestorTags == TagNames \cup {"w:tr"}
Indexes == (0 - MaxIndex - 1) .. MaxIndex

\* ------------------------------------------------------- the collection
\* The output_props and output_props_extended that the script passes to
\* ParserCollection, without the fields read from the file name
output_props == <<"key", "issued_by", "is_sop", "has_references">>
output_props_extended ==
    [references |-> <<"doc_key", "doc_number", "description">>,
     responsibilities |-> <<"doc_key", "party", "responsibilities">>]

\* The props and extended_attr arguments of OutputData, <<>> and "" for None
GivenProps == {<<>>, <<"issued_by">>, <<"key", "has_references", "issued_by">>,
               <<"description">>}
ExtendedAttrs == {"", "references", "responsibilities"}

\* Documents of a collection: a header with the issuer and a references list;
\* no header part and a references list of runs; a header without the label
\* and a document that does not parse
IssuedSop ==
    [p \in {HeaderPart, DocumentPart} |->
        IF p = HeaderPart THEN Parsed(MixedRow) ELSE Parsed(PlainReferences)]
HeaderlessSop ==
    [p \in {DocumentPart} |-> Parsed(RunReferences)]
BrokenSop ==
    [p \in {HeaderPart, DocumentPart} |->
        IF p = HeaderPart THEN Parsed(NoLabel) ELSE Malformed]

CollectionArchives == {IssuedSop, HeaderlessSop, BrokenSop}

\* What xml_file of document d returns and the tree of the wrapper; readable
\* says that the archive can be read or the part is cached already
part_of(d, xml_filename, readable) ==
    IF xml_filename \in DOMAIN d /\ readable /\ d[xml_filename].ok
    THEN [ret |-> "Self", tree |-> d[xml_filename].tree]
    ELSE [ret |-> "None", tree |-> <<>>]

\* True and False as values of a record field
PyBool(b) == Str(IF b THEN "True" ELSE "False")

\* doc.issued_by
issued_by_of(d, readable) ==
    LET f == part_of(d, HeaderPart, readable)
        c == issued_by_chain(f.tree, f.ret)
    IN  IF c.ret = "None" THEN NoStr ELSE get_text_value_on(f.tree, c.node)

\* doc.has_references: None when the part is unavailable
has_references_of(d, readable) ==
    LET f == part_of(d, DocumentPart, readable)
    IN  IF f.ret = "None" THEN NoStr
        ELSE PyBool(set_text_node_by_pattern_on(f.tree, Root, ReferencesPattern).ret
                        # "None")

\* doc.references and doc.responsibilities
list_of(d, heading, entry, readable) ==
    LET f == part_of(d, DocumentPart, readable)
        c == heading_chain(f.tree, f.ret, heading)
    IN  IF c.ret = "None" THEN <<>>
        ELSE sibling_walk(f.tree, c.node, entry, <<>>).list

\* getattr(doc, prop, None)
prop_value(d, prop, readable) ==
    CASE prop = "issued_by" -> issued_by_of(d, readable)
      [] prop = "is_sop" -> PyBool(issued_by_of(d, readable).ok)
      [] prop = "has_references" -> has_references_of(d, readable)
      [] OTHER -> NoStr

\* getattr(doc, extended_attr, [])
extended_value(d, extended_attr, readable) ==
    IF extended_attr = "references"
    THEN list_of(d, ReferencesPattern, ReferenceEntry, readable)
    ELSE list_of(d, ResponsibilitiesPattern, ResponsibilityEntry, readable)

\* [p for p in props if p != name]
props_but(props, name) == {props[i] : i \in 1..Len(props)} \ {name}

\* The dicts that one pass of the for loop of records yields for document d:
\* output['key'] (output['doc_key'] in extended mode) and the other props
records_of(d, key, readable) ==
    IF data.extended_attr = ""
    THEN << [key |-> key,
             fields |-> [p \in props_but(data.props, "key") |->
                            prop_value(d, p, readable)]] >>
    ELSE LET l == extended_value(d, data.extended_attr, readable)
         IN  [i \in 1..Len(l) |->
                 [key |-> key,
                  fields |-> [p \in props_but(data.props, "doc_key") |->
                                 IF p \in DOMAIN l[i] THEN Str(l[i][p]) ELSE NoStr]]]

\* ParserCollection.output_data, OutputData.__init__: self.props is assigned
\* under `if not props` only
output_data(props, extended_attr) ==
    /\ docs # <<>>
    /\ data' = [built |-> TRUE, has_props |-> props = <<>>,
                props |-> IF props # <<>> THEN <<>>
                          ELSE IF extended_attr = "" THEN output_props
                          ELSE output_props_extended[extended_attr],
                extended_attr |-> extended_attr, given |-> props]
    /\ gen' = NoGenerator
    /\ last' = Call("output_data", "", extended_attr, 0, "OutputData", NoNode, "")
    /\ UNCHANGED <<archive, xml_files, node, reads, parses, docs>>

\* OutputData.field_list: return self.props
field_list ==
    /\ data.built
    /\ last' = [Call("field_list", "", data.extended_attr, 0,
                     IF data.has_props THEN "List" ELSE "AttributeError", NoNode, "")
                    EXCEPT !.list = data.props]
    /\ UNCHANGED <<archive, xml_files, node, reads, parses, collection>>

\* OutputData.records, resumed for one pass of its for loop: props = self.props
\* raises when there is no such attribute; past the last document the
\* generator is exhausted
records ==
    /\ data.built
    /\ gen.state \in {"none", "running"}
    /\ \E readable \in BOOLEAN :
          gen' = IF ~data.has_props THEN [gen EXCEPT !.state = "raised"]
                 ELSE IF gen.key = Len(docs) THEN [gen EXCEPT !.state = "done"]
                 ELSE [state |-> "running", key |-> gen.key + 1,
                       yielded |-> gen.yielded
                           \o records_of(docs[gen.key + 1], gen.key, readable)]
    /\ last' = Call("records", "", data.extended_attr, 0,
                    IF ~data.has_props THEN "AttributeError"
                    ELSE IF gen.key = Len(docs) THEN "StopIteration" ELSE "Yield",
                    NoNode, "")
    /\ UNCHANGED <<archive, xml_files, node, reads, parses, docs, data>>

\* --------------------------------------------------- the specifications
Init ==
    /\ archive \in {[p \in {HeaderPart, DocumentPart} |->
                        IF p = HeaderPart THEN h ELSE d] :
                    h \in HeaderContents, d \in DocumentContents}
    /\ Constructed
    /\ NoCollection

\* One document whose only part holds any tree of at most MaxNodes nodes, or
\* one of the larger documents above
InitTree ==
    /\ archive \in {[p \in {HeaderPart} |-> Parsed(t)] :
                        t \in GeneratedTrees \cup Documents}
    /\ Constructed
    /\ NoCollection

\* One document whose word/document.xml holds one of the list documents
InitLists ==
    /\ archive \in {[p \in {DocumentPart} |-> d] : d \in ListContents}
    /\ Constructed
    /\ NoCollection

Next ==
    \/ \E name \in PartNames : xml_file(name)
    \/ \E p \in PartNames : reset_to_root(p)
    \/ \E p \in PartNames : set_firstChild(p)
    \/ \E p \in PartNames : set_lastChild(p)
    \/ \E p \in PartNames, nth \in Indexes : set_childNode(p, nth)
    \/ \E p \in PartNames : set_parentNode(p)
    \/ \E p \in PartNames : set_nextSibling(p)
    \/ \E p \in PartNames : set_previousSibling(p)
    \/ \E p \in PartNames, pattern \in Patterns : set_text_node_by_pattern(p, pattern)
    \/ \E p \in PartNames, tag_name \in AncestorTags : set_ancestor_node_by_tag(p, tag_name)
    \/ \E p \in PartNames : get_text_value(p)
    \/ call_on_None
    \/ issued_by
    \/ references
    \/ responsibilities

Spec == Init /\ [][Next]_vars

SpecTree == InitTree /\ [][Next]_vars

SpecLists == InitLists /\ [][Next]_vars

\* A ParserCollection of MaxDocs documents; the parser that stands alone is
\* its first document, which no action of the collection touches
InitCollection ==
    /\ docs \in [1..MaxDocs -> CollectionArchives]
    /\ archive = docs[1]
    /\ Constructed
    /\ data = NoOutputData
    /\ gen = NoGenerator

NextCollection ==
    \/ \E props \in GivenProps, extended_attr \in ExtendedAttrs :
          output_data(props, extended_attr)
    \/ field_list
    \/ records

SpecCollection == InitCollection /\ [][NextCollection]_vars

\* ------------------------------------------------------------ the claims
MoveOps == {"reset_to_root", "set_firstChild", "set_lastChild", "set_childNode",
            "set_parentNode", "set_nextSibling", "set_previousSibling",
            "set_text_node_by_pattern", "set_ancestor_node_by_tag"}

\* The tree the last call worked on, and self.node after it
LastTree == archive[last.part].tree
LastNode == node[last.part]
InTree(t, n) == n \in 1..Len(t)

\* C1: after every cursor operation, either it returned the cursor and the
\* current node is a node of the tree, or it returned failure and the current
\* node is the valid node it was before; never success with no current node.
C1_CursorValidity ==
    last.op \in MoveOps =>
        \/ last.ret = "Self" /\ InTree(LastTree, LastNode)
        \/ last.ret = "None" /\ LastNode = last.before /\ InTree(LastTree, LastNode)

\* a call chained on a failure fails and moves no cursor
C2_ChainedCallFails ==
    (last.op # "none" /\ last.ret = "None" /\ last'.op = "AttributeError")
        => (last'.ret = "None" /\ node' = node /\ xml_files' = xml_files)

\* SOP.issued_by yields a text only when all five calls of its chain succeeded
C2_FailedChainYieldsFailure ==
    last.op = "issued_by" =>
        /\ last.ret = "Str" <=> last.steps = 5
        /\ last.ret = "None" => last.text = ""

\* a cursor left without a current node fails every further move and read
C2_NoNodeFails ==
    (last.op \in (MoveOps \ {"reset_to_root"}) \cup {"get_text_value"}
        /\ last.before = NoNode)
        => (last.ret = "None" /\ LastNode = NoNode)

\* C2: once a call of a chain has returned failure, a call chained on that
\* result fails and moves no cursor, and a chain in which a call failed
\* yields failure, never a text read at the position reached before.
C2_FailurePropagation ==
    /\ [](C2_FailedChainYieldsFailure /\ C2_NoNodeFails)
    /\ [][C2_ChainedCallFails]_vars

\* a chain that located the label, found no enclosing cell, and so failed
C2_Witness ==
    /\ last.op = "issued_by"
    /\ last.steps = 2
    /\ last.ret = "None"
    /\ nextSibling(LastTree, LastNode) # NoNode

\* C3: every xml_file that returns a cursor returns it at the root of the
\* part's tree, whatever was done with the cursor fetched before.
C3_RefetchAtRoot ==
    (last.op = "xml_file" /\ last.ret = "Self") =>
        /\ xml_files[last.part] = "XMLWrapper"
        /\ LastNode = Root
        /\ parentNode(LastTree, LastNode) = NoNode

\* a refetch that found the cached cursor moved away from the root
C3_Witness ==
    /\ last.op = "xml_file"
    /\ last.ret = "Self"
    /\ last.before \notin {NoNode, Root}
    /\ LastNode = Root

\* C4: a part that parses is read and parsed once, on its first request; a
\* cached part has been parsed exactly once however often it was requested.
C4_ParsedAtMostOnce ==
    \A p \in DOMAIN archive :
        archive[p].ok =>
            /\ reads[p] <= 1
            /\ parses[p] <= 1
            /\ xml_files[p] = "XMLWrapper" <=> parses[p] = 1

\* B, A, B: the second request for B found the cached wrapper
C4_Witness ==
    /\ last.op = "xml_file"
    /\ last.part = HeaderPart
    /\ last.ret = "Self"
    /\ last.before # NoNode
    /\ parses[HeaderPart] = 1
    /\ parses[DocumentPart] = 1

\* a request for a name that is no part fails and changes nothing
C5_UnknownRequest ==
    (last'.op = "xml_file" /\ last'.part \notin DOMAIN archive) =>
        /\ last'.ret = "None"
        /\ UNCHANGED <<xml_files, node, reads, parses>>

\* no read and no parse is ever made for a name that is no part
C5_NeverRead ==
    \A name \in PartNames \ DOMAIN archive : reads[name] = 0 /\ parses[name] = 0

\* C5: xml_file for a name that was not enumerated returns failure, reads and
\* parses nothing and leaves the cache as it was, at any point of any run.
C5_UnknownPart == []C5_NeverRead /\ [][C5_UnknownRequest]_vars

\* an unknown name requested after a part was cached
C5_Witness ==
    /\ last.op = "xml_file"
    /\ last.part = UnknownPart
    /\ last.ret = "None"
    /\ \E p \in DOMAIN archive : xml_files[p] = "XMLWrapper" /\ node[p] # Root

\* The text-tag elements under n whose literal text matches the pattern
MatchingTextNodes(t, n, pattern) ==
    SelectSeq(getElementsByTagName(t, n, text_node_tag),
              LAMBDA e : /\ firstChild(t, e) # NoNode
                         /\ t[firstChild(t, e)].kind = "Text"
                         /\ re_search(pattern, t[firstChild(t, e)].value))

\* C6: set_text_node_by_pattern succeeds whenever a text-tag element with
\* matching text exists under the current node, and moves to the first one.
C6_LocateFindsFirstMatch ==
    (last.op = "set_text_node_by_pattern" /\ last.before # NoNode) =>
        LET found == MatchingTextNodes(LastTree, last.before, last.arg)
        IN  found # <<>> => (last.ret = "Self" /\ LastNode = found[1])

RECURSIVE AggregatedText(_, _)
RECURSIVE AggregatedChildren(_, _)
\* The depth-first, left-to-right concatenation of the text under n, no tag
\* being substituted
AggregatedChildren(t, kids) ==
    IF kids = <<>> THEN ""
    ELSE (IF t[Head(kids)].kind = "Text" THEN t[Head(kids)].value
          ELSE AggregatedText(t, Head(kids)))
         \o AggregatedChildren(t, Tail(kids))

AggregatedText(t, n) == AggregatedChildren(t, childNodes(t, n))

\* C7: get_text_value returns the document-order concatenation of the text of
\* the current node's subtree, nested elements included.
C7_AggregateText ==
    (last.op = "get_text_value" /\ last.before # NoNode) =>
        /\ last.ret = "Str"
        /\ last.text = AggregatedText(LastTree, last.before)

RECURSIVE Up(_, _, _)
\* The node k parent moves above n, NoNode past the Document
Up(t, n, k) ==
    IF k = 0 \/ n = NoNode THEN n ELSE Up(t, parentNode(t, n), k - 1)

\* The numbers of parent moves from n that end at an Element named tag_name
MatchingLevels(t, n, tag_name) ==
    {k \in 1..Len(t) : /\ Up(t, n, k) # NoNode
                       /\ t[Up(t, n, k)].kind = "Element"
                       /\ t[Up(t, n, k)].tag = tag_name}

Least(S) == CHOOSE k \in S : \A j \in S : k <= j

\* C8: set_ancestor_node_by_tag ends at the nearest strict ancestor named
\* tag_name, or fails and leaves the current node where it was when no
\* ancestor up to the root has that name.
C8_NearestAncestor ==
    last.op = "set_ancestor_node_by_tag" =>
        LET levels == IF last.before = NoNode THEN {}
                      ELSE MatchingLevels(LastTree, last.before, last.arg)
        IN  IF levels = {}
            THEN last.ret = "None" /\ LastNode = last.before
            ELSE /\ last.ret = "Self"
                 /\ LastNode = Up(LastTree, last.before, Least(levels))
                 /\ LastNode # last.before

\* the search passed a non-matching parent, stopped two levels up, below a
\* farther ancestor of the same name, starting from an element of that name
C8_Witness ==
    /\ last.op = "set_ancestor_node_by_tag"
    /\ last.ret = "Self"
    /\ last.before # NoNode
    /\ MatchingLevels(LastTree, last.before, last.arg) = {2, 3}
    /\ LastNode = Up(LastTree, last.before, 2)

\* the search from a node none of whose ancestors has the name
C8_WitnessExhausted ==
    /\ last.op = "set_ancestor_node_by_tag"
    /\ last.ret = "None"
    /\ last.before # NoNode
    /\ Up(LastTree, last.before, 2) # NoNode

\* C9: on a header holding the label row, the chain of SOP.issued_by succeeds
\* at every step and yields the text of the cell after the label.
C9_IssuedByPipeline ==
    (last.op = "issued_by" /\ last.steps >= 1 /\ LastTree \in RowShapes) =>
        /\ last.ret = "Str"
        /\ last.text = "Alice"
        /\ last.steps = 5

\* C10: set_firstChild and set_lastChild fail on a node without children, and
\* move to the first and the last child otherwise.
C10_ChildOfLeafFails ==
    (last.op \in {"set_firstChild", "set_lastChild"} /\ last.before # NoNode) =>
        LET c == childNodes(LastTree, last.before)
        IN  IF c = <<>> THEN last.ret = "None" /\ LastNode = last.before
            ELSE /\ last.ret = "Self"
                 /\ LastNode = IF last.op = "set_firstChild" THEN c[1] ELSE c[Len(c)]

\* C11: set_parentNode fails at the root of the tree and moves to the parent
\* from every other node.
C11_ParentOfRootFails ==
    (last.op = "set_parentNode" /\ last.before # NoNode) =>
        IF parentNode(LastTree, last.before) = NoNode
        THEN last.ret = "None" /\ LastNode = last.before
        ELSE last.ret = "Self" /\ LastNode = parentNode(LastTree, last.before)

\* C12: set_nextSibling fails on the last node of a sibling list and
\* set_previousSibling on the first, and they move to the sibling otherwise.
C12_SiblingAtEdgeFails ==
    (last.op \in {"set_nextSibling", "set_previousSibling"} /\ last.before # NoNode) =>
        LET s == IF last.op = "set_nextSibling"
                 THEN nextSibling(LastTree, last.before)
                 ELSE previousSibling(LastTree, last.before)
        IN  IF s = NoNode THEN last.ret = "None" /\ LastNode = last.before
            ELSE last.ret = "Self" /\ LastNode = s

\* C13: set_childNode(i) on a node with n children moves to the child at
\* position i when 0 <= i < n, and fails, the current node unchanged, for
\* every other index, the negative ones included.
C13_ChildByIndex ==
    (last.op = "set_childNode" /\ last.before # NoNode) =>
        LET c == childNodes(LastTree, last.before)
        IN  IF 0 <= last.nth /\ last.nth < Len(c)
            THEN last.ret = "Self" /\ LastNode = c[last.nth + 1]
            ELSE last.ret = "None" /\ LastNode = last.before

\* a search over a subtree without a match fails and leaves the cursor
C14_SearchFails ==
    last.op = "set_text_node_by_pattern" =>
        /\ (last.before = NoNode
            \/ MatchingTextNodes(LastTree, last.before, last.arg) = <<>>)
               => last.ret = "None"
        /\ last.ret = "None" => LastNode = last.before

\* a search changes no cache entry, and the fetch after a failed search
\* returns the cached cursor at the root without reading or parsing
C14_CacheIntact ==
    /\ last'.op = "set_text_node_by_pattern"
          => UNCHANGED <<xml_files, reads, parses>>
    /\ (last.op = "set_text_node_by_pattern" /\ last.ret = "None"
        /\ last'.op = "xml_file" /\ last'.part = last.part)
          => /\ last'.ret = "Self"
             /\ node'[last.part] = Root
             /\ UNCHANGED <<xml_files, reads, parses>>

\* C14: set_text_node_by_pattern on a tree without a matching text-tag element
\* returns failure, leaves the current node and the cache entry as they were,
\* and the next xml_file for the part returns the cached cursor at the root
\* without parsing again.
C14_FailedSearchNoDamage == []C14_SearchFails /\ [][C14_CacheIntact]_vars

\* a search from below the root that visited text-tag elements and found none
C14_Witness ==
    /\ last.op = "set_text_node_by_pattern"
    /\ last.ret = "None"
    /\ last.before \notin {NoNode, Root}
    /\ getElementsByTagName(LastTree, last.before, text_node_tag) # <<>>
    /\ MatchingTextNodes(LastTree, last.before, last.arg) = <<>>

\* C15: get_text_value at a node without children returns the empty string,
\* not failure.
C15_LeafYieldsEmptyString ==
    (last.op = "get_text_value" /\ last.before # NoNode
        /\ childNodes(LastTree, last.before) = <<>>)
        => (last.ret = "Str" /\ last.text = "")

\* the text of an Element without children was read
C15_Witness ==
    /\ last.op = "get_text_value"
    /\ last.before # NoNode
    /\ LastTree[last.before].kind = "Element"
    /\ childNodes(LastTree, last.before) = <<>>
    /\ last.ret = "Str"

\* a part that does not parse is never cached and every read of it was parsed
C16_NeverCached ==
    \A p \in DOMAIN archive :
        ~archive[p].ok => /\ xml_files[p] = "None"
                          /\ node[p] = NoNode
                          /\ parses[p] = reads[p]

\* a failed request for an enumerated part leaves its entry unparsed and the
\* cache as it was
C16_FailedRequest ==
    (last'.op = "xml_file" /\ last'.part \in DOMAIN archive /\ last'.ret = "None")
        => /\ xml_files[last'.part] = "None"
           /\ UNCHANGED <<xml_files, node>>

\* C16: when an enumerated part does not parse or the archive cannot be read,
\* xml_file returns None as for an unknown name, the entry stays None, and a
\* later request reads and parses again.
C16_UniformUnavailability == []C16_NeverCached /\ [][C16_FailedRequest]_vars

\* the second request for a malformed part read and parsed it again, and failed
C16_Witness ==
    /\ last.op = "xml_file"
    /\ last.part \in DOMAIN archive
    /\ ~archive[last.part].ok
    /\ last.ret = "None"
    /\ reads[last.part] = 2
    /\ parses[last.part] = 2

\* a call changes the cursor and the cache entry of its own part only
C19_OtherPartsUntouched ==
    \A p \in DOMAIN archive :
        (node'[p] # node[p] \/ xml_files'[p] # xml_files[p]) => last'.part = p

\* a request for a cached part hands out the cursor already held, back at the
\* root, whatever position an earlier traversal left it in
C19_RefetchMovesHeldCursor ==
    (last'.op = "xml_file" /\ last'.part \in DOMAIN archive
        /\ xml_files[last'.part] = "XMLWrapper")
        => /\ last'.ret = "Self"
           /\ last'.before = node[last'.part]
           /\ node'[last'.part] = Root
           /\ UNCHANGED <<xml_files, reads, parses>>

\* every move and read starts from the position the latest call on the part left
C19_StartsFromLatest ==
    (last'.op \in MoveOps \cup {"get_text_value"})
        => last'.before = node[last'.part]

\* C19: a part has one cached cursor: a second xml_file for the part moves the
\* cursor held from the first back to the root, every call starts from the
\* position the most recent call on the part left, and a call on another part
\* never changes this part's cursor or cache entry.
C19_SingleSharedCursor ==
    [][C19_OtherPartsUntouched /\ C19_RefetchMovesHeldCursor
        /\ C19_StartsFromLatest]_vars

\* a second request for a part found its cursor moved by the first traversal,
\* while the other part's cursor stays where its own traversal left it
C19_Witness ==
    /\ last.op = "xml_file"
    /\ last.ret = "Self"
    /\ last.before \notin {NoNode, Root}
    /\ node[last.part] = Root
    /\ \E q \in DOMAIN archive \ {last.part} : node[q] \notin {NoNode, Root}

\* The siblings that follow n, in document order
FollowingSiblings(t, n) ==
    SelectSeq(childNodes(t, parentNode(t, n)), LAMBDA m : m > n)

RECURSIVE MatchingRun(_, _, _)
\* The records of the longest prefix of sibs whose aggregated text matches
MatchingRun(t, sibs, entry) ==
    IF sibs = <<>> THEN <<>>
    ELSE LET m == re_match(entry, AggregatedText(t, Head(sibs)))
         IN  IF ~m.ok THEN <<>>
             ELSE <<entry_record(entry, m)>> \o MatchingRun(t, Tail(sibs), entry)

\* The entries under the first heading that matches: those of the paragraphs
\* that follow the heading's paragraph, none without heading or paragraph
EntriesUnderHeading(t, heading, entry) ==
    LET hs == MatchingTextNodes(t, Root, heading)
        levels == IF hs = <<>> THEN {} ELSE MatchingLevels(t, Head(hs), "w:p")
    IN  IF levels = {} THEN <<>>
        ELSE MatchingRun(t, FollowingSiblings(t, Up(t, Head(hs), Least(levels))),
                         entry)

\* C20: SOP.references and SOP.responsibilities end after at most one
\* set_nextSibling per node of the document, return a list and raise nothing,
\* and the list holds exactly the records of the longest run of paragraphs
\* after the heading whose aggregated text matches the entry pattern: the
\* empty list when the heading or the part is missing.
C20_SiblingWalk ==
    last.op \in {"references", "responsibilities"} =>
        LET entry == IF last.op = "references" THEN ReferenceEntry
                     ELSE ResponsibilityEntry
        IN  /\ last.ret = "List"
            /\ IF last.part \in DOMAIN archive /\ xml_files[last.part] = "XMLWrapper"
               THEN /\ last.steps <= Len(LastTree)
                    /\ last.list = EntriesUnderHeading(LastTree, last.arg, entry)
               ELSE last.list = <<>>

\* The props an OutputData was asked for: the list given, else the collection's
RequestedProps ==
    IF data.given # <<>> THEN data.given
    ELSE IF data.extended_attr = "" THEN output_props
    ELSE output_props_extended[data.extended_attr]

\* The navigation of issued_by cannot complete in document d: no header part,
\* a header that does not parse, or no label in it
NoIssuer(d) ==
    \/ HeaderPart \notin DOMAIN d
    \/ ~d[HeaderPart].ok
    \/ MatchingTextNodes(d[HeaderPart].tree, Root, IssuedByPattern) = <<>>

\* C17: records yields one record for every document it has passed, with all
\* the requested fields, a field whose navigation cannot complete being None;
\* no document's record is missing and the iteration reaches the last document.
C17_PerFieldDegradation ==
    (data.built /\ data.extended_attr = "") =>
        /\ gen.state # "raised"
        /\ Len(gen.yielded) = gen.key
        /\ gen.state = "done" => gen.key = Len(docs)
        /\ \A i \in 1..Len(gen.yielded) :
              LET r == gen.yielded[i]
              IN  /\ r.key = i - 1
                  /\ DOMAIN r.fields = props_but(RequestedProps, "key")
                  /\ \A p \in DOMAIN r.fields :
                        /\ \E readable \in BOOLEAN :
                              r.fields[p] = prop_value(docs[i], p, readable)
                        /\ (p = "issued_by" /\ NoIssuer(docs[i]))
                              => r.fields[p] = NoStr

\* C18: an OutputData built with a non-empty props list answers field_list
\* with that list and yields records with exactly those props and the key;
\* without props it falls back to output_props, or to
\* output_props_extended[extended_attr] in extended mode.
C18_FieldSelection ==
    data.built =>
        /\ last.op = "field_list"
              => (last.ret = "List" /\ last.list = RequestedProps)
        /\ gen.state # "raised"
        /\ \A i \in 1..Len(gen.yielded) :
              DOMAIN gen.yielded[i].fields =
                  props_but(RequestedProps,
                            IF data.extended_attr = "" THEN "key" ELSE "doc_key")

\* The node a move leads to from n, NoNode when there is none
MoveTarget(t, op, n) ==
    CASE op = "set_nextSibling" -> nextSibling(t, n)
      [] op = "set_previousSibling" -> previousSibling(t, n)
      [] op = "set_firstChild" -> firstChild(t, n)
      [] op = "set_lastChild" -> lastChild(t, n)

\* The move that undoes a move
InverseMove(op) ==
    CASE op = "set_nextSibling" -> "set_previousSibling"
      [] op = "set_previousSibling" -> "set_nextSibling"
      [] op = "set_firstChild" -> "set_parentNode"
      [] op = "set_lastChild" -> "set_parentNode"

RoundTripMoves == {"set_nextSibling", "set_previousSibling",
                   "set_firstChild", "set_lastChild"}

\* a move from a node to a sibling or child that exists succeeds and ends there
C21_MoveOut ==
    (last.op \in RoundTripMoves /\ last.before # NoNode
        /\ MoveTarget(LastTree, last.op, last.before) # NoNode)
        => /\ last.ret = "Self"
           /\ LastNode = MoveTarget(LastTree, last.op, last.before)

\* the inverse move made next on the same cursor succeeds and ends at the
\* node the first move started from
C21_MoveBack ==
    (/\ last.op \in RoundTripMoves
     /\ last.before # NoNode
     /\ MoveTarget(LastTree, last.op, last.before) # NoNode
     /\ last'.op = InverseMove(last.op)
     /\ last'.part = last.part)
        => /\ last'.ret = "Self"
           /\ last'.before = node[last.part]
           /\ node'[last.part] = last.before

\* C21: from a node with a next sibling, set_nextSibling then
\* set_previousSibling ends at the node again, and so does the reverse from a
\* node with a previous sibling; from a node with children, set_firstChild or
\* set_lastChild then set_parentNode ends at the node again; every step
\* returns the wrapper.
C21_RoundTrips == []C21_MoveOut /\ [][C21_MoveBack]_vars

\* set_previousSibling has brought the cursor back from a next sibling
C21_Witness ==
    /\ last.op = "set_previousSibling"
    /\ last.ret = "Self"
    /\ last.before # NoNode
    /\ LastNode # NoNode
    /\ nextSibling(LastTree, LastNode) = last.before
====
